---- MODULE Spec2Model ----
(***************************************************************************)
(* Model of the agelum document store (src/unnamed/part_001): the name     *)
(* codec (sanitizeFileNamePart, ensureMdExtension, formatPriority,         *)
(* buildFileName), repository-root discovery, taxonomy provisioning and    *)
(* the create / move / get tool handlers acting on a file tree.            *)
(*                                                                         *)
(* Text is a sequence of one-character strings.  An optional argument is   *)
(* a sequence of length 0 (undefined) or 1 (the value).  A JavaScript      *)
(* number is a record [k, v]: k = "fin" with v the value in tenths,        *)
(* k = "nan", or k = "inf" with v the sign.  A path is a sequence of       *)
(* segments relative to <root>/agelum, every segment a text.               *)
(***************************************************************************)
EXTENDS Integers, Sequences, FiniteSets, Bags, TLC

VARIABLES env, dirs, files, last, prev, enc, procs, conf

vars == <<env, dirs, files, last, prev, enc, procs, conf>>

(***************************************************************************)
(* Optional values and numbers                                             *)
(***************************************************************************)
None == <<>>

Some(x) == <<x>>

IsDef(o) == Len(o) > 0

Val(o) == o[1]

Fin(tenths) == [k |-> "fin", v |-> tenths]

Whole(n) == Fin(10 * n)

NaN == [k |-> "nan", v |-> 0]

Infinity == [k |-> "inf", v |-> 1]

\* a finite number of m * 10^21, m in 1..9, where String switches to
\* exponent notation
Huge(m) == [k |-> "big", v |-> m]

\* Number.isFinite
isFinite(n) == n.k \in {"fin", "big"}

(***************************************************************************)
(* Text helpers                                                            *)
(***************************************************************************)
Whitespace == {" ", "\t", "\n"}

Separators == {"/", "\\"}

Reserved == {"NUL", "<", ">", ":", "\"", "|", "?", "*"}

MapSeq(s, F(_)) == [i \in 1..Len(s) |-> F(s[i])]

RECURSIVE TrimStart(_)
TrimStart(s) ==
  IF s # <<>> /\ Head(s) \in Whitespace THEN TrimStart(Tail(s)) ELSE s

RECURSIVE TrimEnd(_)
TrimEnd(s) ==
  IF s # <<>> /\ s[Len(s)] \in Whitespace
  THEN TrimEnd(SubSeq(s, 1, Len(s) - 1))
  ELSE s

\* String.prototype.trim
Trim(s) ==
  CHOOSE r \in { TrimEnd(t) : t \in { TrimStart(v) : v \in {s} } } : TRUE

\* .replace(/\s+/g, ' '): every maximal run of whitespace becomes one space
RECURSIVE CollapseWs(_)
CollapseWs(s) ==
  IF s = <<>> THEN <<>>
  ELSE IF Head(s) \in Whitespace
       THEN <<" ">> \o CollapseWs(TrimStart(s))
       ELSE <<Head(s)>> \o CollapseWs(Tail(s))

ReplaceSep(c) == IF c \in Separators THEN "-" ELSE c

NotReserved(c) == c \notin Reserved

ToLowerChar(c) ==
  CASE c = "M" -> "m"
    [] c = "D" -> "d"
    [] c = "A" -> "a"
    [] c = "N" -> "n"
    [] c = "I" -> "i"
    [] OTHER -> c

toLowerCase(s) == MapSeq(s, ToLowerChar)

EndsWith(s, suffix) ==
  /\ Len(s) >= Len(suffix)
  /\ SubSeq(s, Len(s) - Len(suffix) + 1, Len(s)) = suffix

DotMd == <<".", "m", "d">>

(***************************************************************************)
(* Name codec                                                              *)
(***************************************************************************)
sanitizeFileNamePart(value) ==
  CHOOSE r \in { Trim(CollapseWs(v)) :
                   v \in {SelectSeq(MapSeq(value, ReplaceSep), NotReserved)} } :
    TRUE

ensureMdExtension(fileName) ==
  CHOOSE r \in { IF EndsWith(toLowerCase(trimmed), DotMd) THEN trimmed
                  ELSE trimmed \o DotMd : trimmed \in {Trim(fileName)} } : TRUE

DigitChar(d) ==
  CASE d = 0 -> "0" [] d = 1 -> "1" [] d = 2 -> "2" [] d = 3 -> "3"
    [] d = 4 -> "4" [] d = 5 -> "5" [] d = 6 -> "6" [] d = 7 -> "7"
    [] d = 8 -> "8" [] d = 9 -> "9"

RECURSIVE NatToString(_)
NatToString(n) ==
  IF n < 10 THEN <<DigitChar(n)>>
  ELSE NatToString(n \div 10) \o <<DigitChar(n % 10)>>

Abs(i) == IF i < 0 THEN -i ELSE i

\* String(value) for a number
NumberToString(n) ==
  CASE n.k = "nan" -> <<"N", "a", "N">>
    [] n.k = "inf" ->
         (IF n.v < 0 THEN <<"-">> ELSE <<>>)
           \o <<"I", "n", "f", "i", "n", "i", "t", "y">>
    [] n.k = "big" -> <<DigitChar(n.v), "e", "+", "2", "1">>
    [] OTHER ->
         (IF n.v < 0 THEN <<"-">> ELSE <<>>)
           \o NatToString(Abs(n.v) \div 10)
           \o (IF Abs(n.v) % 10 = 0 THEN <<>>
               ELSE <<".", DigitChar(Abs(n.v) % 10)>>)

formatStoryPoints(value) == NumberToString(value)

\* Math.trunc on a finite number held in tenths (the sign of -0 is dropped
\* by String)
Trunc(n) == IF n.v < 0 THEN -(Abs(n.v) \div 10) ELSE n.v \div 10

padStart2(s) == IF Len(s) < 2 THEN <<"0">> \o s ELSE s

Ok(v) == [ok |-> TRUE, val |-> v, err |-> "none"]

Throw(e) == [ok |-> FALSE, val |-> <<>>, err |-> e]

formatPriorityRound(value) ==
  IF value.k # "fin" \/ value.v < 0 THEN Throw("InvalidPriority")
  ELSE Ok(padStart2(NatToString((value.v + 5) \div 10)))

\* a number at or beyond 10^21 is an integer, which Math.trunc returns
formatPriority(value) ==
  IF ~isFinite(value) \/ value.v < 0 THEN Throw("InvalidPriority")
  ELSE IF value.k = "big" THEN Ok(padStart2(NumberToString(value)))
  ELSE Ok(padStart2(NatToString(Trunc(value))))

buildFileNameNoPoints(type, title, priority, storyPoints) ==
  LET t == sanitizeFileNamePart(title)
  IN  IF t = <<>> THEN Throw("InvalidTitle")
      ELSE IF type = "task"
      THEN IF ~IsDef(priority) THEN Throw("PriorityRequired")
           ELSE IF ~IsDef(storyPoints) THEN Throw("StoryPointsRequired")
           ELSE LET p == formatPriority(Val(priority))
                IN  IF ~p.ok THEN p
                    ELSE Ok(p.val \o <<" ">> \o t \o DotMd)
      ELSE Ok(t \o DotMd)

buildFileNamePriorityPrefix(type, title, priority, storyPoints) ==
  LET t == sanitizeFileNamePart(title)
      built == buildFileNameNoPoints(type, title, priority, storyPoints)
      p == formatPriority(Val(priority))
      sp == IF IsDef(storyPoints)
            THEN <<" ", "(">> \o formatStoryPoints(Val(storyPoints)) \o <<")">>
            ELSE <<>>
  IN  IF ~built.ok THEN built
      ELSE IF IsDef(priority) /\ p.ok
      THEN Ok(p.val \o <<" ">> \o t \o sp \o DotMd)
      ELSE Ok(t \o sp \o DotMd)

buildFileName(type, title, priority, storyPoints) ==
  LET t == sanitizeFileNamePart(title)
  IN  IF t = <<>> THEN Throw("InvalidTitle")
      ELSE IF type = "task"
      THEN IF ~IsDef(priority) THEN Throw("PriorityRequired")
           ELSE IF ~IsDef(storyPoints) THEN Throw("StoryPointsRequired")
           ELSE LET p == formatPriority(Val(priority))
                IN  IF ~p.ok THEN p
                    ELSE Ok(p.val \o <<" ">> \o t \o <<" ", "(">>
                              \o formatStoryPoints(Val(storyPoints))
                              \o <<")">> \o DotMd)
      ELSE IF IsDef(storyPoints)
      THEN Ok(t \o <<" ", "(">> \o formatStoryPoints(Val(storyPoints))
                \o <<")">> \o DotMd)
      ELSE Ok(t \o DotMd)

(***************************************************************************)
(* Paths: path.join on POSIX splits on "/", drops "" and ".", and lets      *)
(* ".." cancel the segment before it.                                      *)
(***************************************************************************)
Dot == <<".">>

DotDot == <<".", ".">>

tasks == <<"t", "a", "s", "k", "s">>

pending == <<"p", "e", "n", "d", "i", "n", "g">>

doing == <<"d", "o", "i", "n", "g">>

done == <<"d", "o", "n", "e">>

TaskStates == {"pending", "doing", "done"}

StateDir(state) ==
  CASE state = "pending" -> pending
    [] state = "doing" -> doing
    [] state = "done" -> done

DocumentTypes ==
  {"task", "epic", "plan", "doc", "command", "skill", "agent", "context"}

nonTaskTypeToDir(type) ==
  CASE type = "epic" -> <<"e", "p", "i", "c", "s">>
    [] type = "plan" -> <<"p", "l", "a", "n", "s">>
    [] type = "doc" -> <<"d", "o", "c", "s">>
    [] type = "command" -> <<"c", "o", "m", "m", "a", "n", "d", "s">>
    [] type = "skill" -> <<"s", "k", "i", "l", "l", "s">>
    [] type = "agent" -> <<"a", "g", "e", "n", "t", "s">>
    [] type = "context" -> <<"c", "o", "n", "t", "e", "x", "t">>

AGELUM_STRUCTURE ==
  { <<nonTaskTypeToDir(t)>> :
      t \in {"doc", "plan", "command", "skill", "agent", "context", "epic"} }
    \cup { <<tasks, StateDir(s)>> : s \in TaskStates }

RECURSIVE SplitPath(_, _)
SplitPath(text, cur) ==
  IF text = <<>> THEN <<cur>>
  ELSE IF Head(text) = "/" THEN <<cur>> \o SplitPath(Tail(text), <<>>)
  ELSE SplitPath(Tail(text), Append(cur, Head(text)))

RECURSIVE NormalizeSegs(_, _)
NormalizeSegs(segs, acc) ==
  IF segs = <<>> THEN acc
  ELSE LET h == Head(segs)
       IN  IF h = <<>> \/ h = Dot THEN NormalizeSegs(Tail(segs), acc)
           ELSE IF h = DotDot
           THEN IF acc # <<>> /\ acc[Len(acc)] # DotDot
                THEN NormalizeSegs(Tail(segs), SubSeq(acc, 1, Len(acc) - 1))
                ELSE NormalizeSegs(Tail(segs), Append(acc, h))
           ELSE NormalizeSegs(Tail(segs), Append(acc, h))

\* path.join(agelumPath, ...dir, name), relative to agelumPath
PathJoin(dir, name) ==
  CHOOSE r \in { NormalizeSegs(segs, <<>>) :
                   segs \in { dir \o SplitPath(n, <<>>) : n \in {name} } } : TRUE

TaskDir(state) == <<tasks, StateDir(state)>>

\* every ancestor directory that mkdirSync(..., {recursive: true}) creates
Ancestors(p) == { SubSeq(p, 1, n) : n \in 0..Len(p) }

existsSync(fs, ds, p) == p \in DOMAIN fs \/ p \in ds

(***************************************************************************)
(* Repository root discovery.  env.cwdDepth is the number of ancestors of  *)
(* the working directory (level 0 is the filesystem root, whose dirname is *)
(* itself), env.gitLevels the levels on the way up that hold a ".git"      *)
(* entry, env.hint the configured fallback: "none", "exists" or "missing". *)
(***************************************************************************)
MAX_DEPTH == 10

NoRoot == [found |-> FALSE, kind |-> "none", level |-> 0]

RECURSIVE WalkUp(_, _, _)
WalkUp(e, currentLevel, depth) ==
  IF ~(depth < MAX_DEPTH) THEN NoRoot
  ELSE IF currentLevel \in e.gitLevels
  THEN [found |-> TRUE, kind |-> "git", level |-> currentLevel]
  ELSE IF currentLevel = 0 THEN NoRoot
  ELSE WalkUp(e, currentLevel - 1, depth + 1)

findRepoRootPathHintFirst(e) ==
  LET walked == WalkUp(e, e.cwdDepth, 0)
  IN  IF e.hint = "exists"
      THEN [found |-> TRUE, kind |-> "hint", level |-> 0]
      ELSE walked

findRepoRootPathAnyHint(e) ==
  LET walked == WalkUp(e, e.cwdDepth, 0)
  IN  IF walked.found THEN walked
      ELSE IF e.hint # "none"
      THEN [found |-> TRUE, kind |-> "hint", level |-> 0]
      ELSE NoRoot

findRepoRootPath(e) ==
  LET walked == WalkUp(e, e.cwdDepth, 0)
  IN  IF walked.found THEN walked
      ELSE IF e.hint = "exists"
      THEN [found |-> TRUE, kind |-> "hint", level |-> 0]
      ELSE NoRoot

ensureAgelumStructureTasksOnly(ds) ==
  ds \cup UNION { Ancestors(TaskDir(s)) : s \in TaskStates }

\* the directories present after ensureAgelumStructure
ensureAgelumStructure(ds) ==
  ds \cup UNION { Ancestors(d) : d \in AGELUM_STRUCTURE }

(***************************************************************************)
(* File content: the lines of the written text                             *)
(***************************************************************************)
Txt_title == <<"t", "i", "t", "l", "e", ":", " ">>

Txt_created == <<"c", "r", "e", "a", "t", "e", "d", ":", " ">>

Txt_type == <<"t", "y", "p", "e", ":", " ">>

Txt_state == <<"s", "t", "a", "t", "e", ":", " ">>

Txt_priority == <<"p", "r", "i", "o", "r", "i", "t", "y", ":", " ">>

Txt_storyPoints ==
  <<"s", "t", "o", "r", "y", "P", "o", "i", "n", "t", "s", ":", " ">>

Dashes == <<"-", "-", "-">>

TypeText(type) ==
  CASE type = "task" -> <<"t", "a", "s", "k">>
    [] type = "epic" -> <<"e", "p", "i", "c">>
    [] type = "plan" -> <<"p", "l", "a", "n">>
    [] type = "doc" -> <<"d", "o", "c">>
    [] type = "command" -> <<"c", "o", "m", "m", "a", "n", "d">>
    [] type = "skill" -> <<"s", "k", "i", "l", "l">>
    [] type = "agent" -> <<"a", "g", "e", "n", "t">>
    [] type = "context" -> <<"c", "o", "n", "t", "e", "x", "t">>

\* new Date().toISOString() for the t-th day of the model's clock
toISOString(t) ==
  <<"2", "0", "2", "6", "-", "0", "1", "-", "0">> \o NatToString(t)
    \o <<"T", "0", "0", ":", "0", "0", ":", "0", "0", ".", "0", "0", "0", "Z">>

buildFrontmatter(type, title, state, priority, storyPoints, t) ==
  LET head == << Dashes, Txt_title \o title,
                 Txt_created \o toISOString(t),
                 Txt_type \o TypeText(type) >>
      sp == IF IsDef(storyPoints)
            THEN << Txt_storyPoints \o formatStoryPoints(Val(storyPoints)) >>
            ELSE <<>>
  IN  IF type = "task"
      THEN IF ~IsDef(state) THEN Throw("StateRequired")
           ELSE LET p == IF IsDef(priority)
                         THEN formatPriority(Val(priority))
                         ELSE Ok(<<>>)
                IN  IF ~p.ok THEN p
                    ELSE Ok(head
                            \o << Txt_state \o StateDir(Val(state)) >>
                            \o (IF IsDef(priority)
                                THEN << Txt_priority \o p.val >> ELSE <<>>)
                            \o sp \o << Dashes >>)
      ELSE Ok(head \o sp \o << Dashes >>)

\* `\n# ${title}\n\n${content}\n` after the frontmatter
FileText(frontmatter, title, content) ==
  frontmatter \o << <<>>, <<"#", " ">> \o title, <<>>, content >>

(***************************************************************************)
(* Tool handlers.  A handler maps the tree and the call's arguments to the *)
(* result returned to the caller and the tree it leaves behind.            *)
(***************************************************************************)
NoPath == <<>>

Success(path, exists, from, to) ==
  [ok |-> TRUE, err |-> "none", path |-> path, exists |-> exists,
   from |-> from, to |-> to]

Failure(e) ==
  [ok |-> FALSE, err |-> e, path |-> NoPath, exists |-> FALSE,
   from |-> NoPath, to |-> NoPath]

Outcome(res, fs, ds) == [res |-> res, files |-> fs, dirs |-> ds]

\* fs.writeFileSync(p, text): creates or replaces the file at p
writeFileSync(fs, p, text) ==
  [q \in DOMAIN fs \cup {p} |-> IF q = p THEN text ELSE fs[q]]

renameSyncCopy(fs, from, to) ==
  [q \in DOMAIN fs \cup {to} |-> IF q = to THEN fs[from] ELSE fs[q]]

renameSyncDrop(fs, from, to) ==
  [q \in DOMAIN fs \ {from} |-> fs[q]]

\* fs.renameSync(from, to): the file at from replaces whatever is at to
renameSync(fs, from, to) ==
  [q \in (DOMAIN fs \ {from}) \cup {to} |-> IF q = to THEN fs[from] ELSE fs[q]]

\* a string is truthy unless it is undefined or empty
Truthy(o) == IsDef(o) /\ Val(o) # <<>>

\* create: lines 372-376
CreateFileName(a) ==
  LET raw == IF IsDef(a.fileName) THEN Ok(Val(a.fileName))
             ELSE buildFileName(a.type, a.title, a.priority, a.storyPoints)
  IN  IF ~raw.ok THEN raw
      ELSE Ok(ensureMdExtension(sanitizeFileNamePart(raw.val)))

\* move: lines 432-437
MoveFileName(a) ==
  IF Truthy(a.fileName) THEN Ok(ensureMdExtension(Val(a.fileName)))
  ELSE IF a.title = <<>> THEN Throw("TitleRequired")
  ELSE LET built == buildFileName(a.type, a.title, a.priority, a.storyPoints)
       IN  IF ~built.ok THEN built ELSE Ok(ensureMdExtension(built.val))

\* get: lines 483-515
GetFileNameStrict(a) ==
  IF Truthy(a.fileName) THEN Ok(ensureMdExtension(Val(a.fileName)))
  ELSE IF a.title = <<>> THEN Throw("TitleRequired")
  ELSE LET built == buildFileName(a.type, a.title, a.priority, a.storyPoints)
       IN  IF ~built.ok THEN built ELSE Ok(ensureMdExtension(built.val))

GetFileName(a) ==
  LET resolved ==
        IF Truthy(a.fileName) THEN Ok(Val(a.fileName))
        ELSE IF a.title = <<>> THEN Throw("TitleRequired")
        ELSE IF a.type = "task" /\ ~(IsDef(a.priority) /\ IsDef(a.storyPoints))
        THEN Ok(<<>>)
        ELSE buildFileName(a.type, a.title, a.priority, a.storyPoints)
  IN  \* lines 505-515: the task fallback, then the trailing ensureMdExtension
      CHOOSE r \in
        { IF ~n.ok THEN n
          ELSE IF n.val = <<>> /\ a.type = "task"
          THEN Ok(ensureMdExtension(
                    ensureMdExtension(sanitizeFileNamePart(a.title))))
          ELSE IF n.val = <<>> THEN Throw("UnresolvableFileName")
          ELSE Ok(ensureMdExtension(n.val)) : n \in {resolved} } : TRUE

TargetDirOfByState(type, state) ==
  IF type = "task" \/ state # "pending" THEN TaskDir(state)
  ELSE <<nonTaskTypeToDir(type)>>

TargetDirOf(type, state) ==
  IF type = "task" THEN TaskDir(state) ELSE <<nonTaskTypeToDir(type)>>

HandleCreateUpsert(fs, ds, a, t) ==
  LET fn == CreateFileName(a)
      state == IF IsDef(a.state) THEN Val(a.state) ELSE "pending"
      content == IF IsDef(a.content) THEN Val(a.content) ELSE <<>>
      targetDir == TargetDirOf(a.type, state)
      ds2 == ds \cup Ancestors(targetDir)
      filePath == PathJoin(targetDir, fn.val)
      fm == buildFrontmatter(a.type, a.title, Some(state), a.priority,
                             a.storyPoints, t)
  IN  IF ~fn.ok THEN Outcome(Failure(fn.err), fs, ds)
      ELSE IF ~fm.ok THEN Outcome(Failure(fm.err), fs, ds2)
      ELSE Outcome(Success(filePath, FALSE, NoPath, NoPath),
                   writeFileSync(fs, filePath,
                                 FileText(fm.val, a.title, content)),
                   ds2)

HandleCreateWriteFirst(fs, ds, a, t) ==
  LET fn == CreateFileName(a)
      state == IF IsDef(a.state) THEN Val(a.state) ELSE "pending"
      content == IF IsDef(a.content) THEN Val(a.content) ELSE <<>>
      targetDir == TargetDirOf(a.type, state)
      ds2 == ds \cup Ancestors(targetDir)
      filePath == PathJoin(targetDir, fn.val)
      fm == buildFrontmatter(a.type, a.title, Some(state), a.priority,
                             a.storyPoints, t)
  IN  IF ~fn.ok THEN Outcome(Failure(fn.err), fs, ds)
      ELSE IF existsSync(fs, ds2, filePath)
      THEN Outcome(Failure("AlreadyExists"), fs, ds2)
      ELSE IF ~fm.ok
      THEN Outcome(Failure(fm.err), writeFileSync(fs, filePath, <<>>), ds2)
      ELSE Outcome(Success(filePath, FALSE, NoPath, NoPath),
                   writeFileSync(fs, filePath,
                                 FileText(fm.val, a.title, content)),
                   ds2)

HandleCreateAnyState(fs, ds, a, t) ==
  LET fn == CreateFileName(a)
      state == IF IsDef(a.state) THEN Val(a.state) ELSE "pending"
      content == IF IsDef(a.content) THEN Val(a.content) ELSE <<>>
      targetDir == TargetDirOf(a.type, state)
      ds2 == ds \cup Ancestors(targetDir)
      filePath == PathJoin(targetDir, fn.val)
      fm == buildFrontmatter(a.type, a.title, Some(state), a.priority,
                             a.storyPoints, t)
  IN  IF ~fn.ok THEN Outcome(Failure(fn.err), fs, ds)
      ELSE IF \/ existsSync(fs, ds2, filePath)
              \/ /\ a.type = "task"
                 /\ \E s \in TaskStates :
                      existsSync(fs, ds2, PathJoin(TaskDir(s), fn.val))
      THEN Outcome(Failure("AlreadyExists"), fs, ds2)
      ELSE IF ~fm.ok THEN Outcome(Failure(fm.err), fs, ds2)
      ELSE Outcome(Success(filePath, FALSE, NoPath, NoPath),
                   writeFileSync(fs, filePath,
                                 FileText(fm.val, a.title, content)),
                   ds2)

HandleCreate(fs, ds, a, t) ==
  LET fn == CreateFileName(a)
      state == IF IsDef(a.state) THEN Val(a.state) ELSE "pending"
      content == IF IsDef(a.content) THEN Val(a.content) ELSE <<>>
      targetDir == TargetDirOf(a.type, state)
      ds2 == ds \cup Ancestors(targetDir)
      filePath == PathJoin(targetDir, fn.val)
      fm == buildFrontmatter(a.type, a.title, Some(state), a.priority,
                             a.storyPoints, t)
  IN  IF ~fn.ok THEN Outcome(Failure(fn.err), fs, ds)
      ELSE IF existsSync(fs, ds2, filePath)
      THEN Outcome(Failure("AlreadyExists"), fs, ds2)
      ELSE IF ~fm.ok THEN Outcome(Failure(fm.err), fs, ds2)
      ELSE Outcome(Success(filePath, FALSE, NoPath, NoPath),
                   writeFileSync(fs, filePath,
                                 FileText(fm.val, a.title, content)),
                   ds2)

StateRank(state) ==
  CASE state = "pending" -> 1 [] state = "doing" -> 2 [] state = "done" -> 3

HandleMoveOverwrite(fs, ds, a) ==
  LET fn == MoveFileName(a)
      sourcePath == PathJoin(TaskDir(a.fromState), fn.val)
      ds2 == ds \cup Ancestors(TaskDir(a.toState))
      targetPath == PathJoin(TaskDir(a.toState), fn.val)
  IN  IF a.fromState = a.toState
      THEN Outcome(Failure("InvalidTransition"), fs, ds)
      ELSE IF ~fn.ok THEN Outcome(Failure(fn.err), fs, ds)
      ELSE IF ~existsSync(fs, ds, sourcePath)
      THEN Outcome(Failure("SourceNotFound"), fs, ds)
      ELSE Outcome(Success(NoPath, FALSE, sourcePath, targetPath),
                   renameSync(fs, sourcePath, targetPath), ds2)

HandleMoveLateCheck(fs, ds, a) ==
  LET fn == MoveFileName(a)
      sourcePath == PathJoin(TaskDir(a.fromState), fn.val)
      ds2 == ds \cup Ancestors(TaskDir(a.toState))
      targetPath == PathJoin(TaskDir(a.toState), fn.val)
  IN  IF ~fn.ok THEN Outcome(Failure(fn.err), fs, ds)
      ELSE IF ~existsSync(fs, ds, sourcePath)
      THEN Outcome(Failure("SourceNotFound"), fs, ds)
      ELSE IF a.fromState = a.toState
      THEN Outcome(Failure("InvalidTransition"), fs, ds)
      ELSE IF existsSync(fs, ds2, targetPath)
      THEN Outcome(Failure("TargetExists"), fs, ds2)
      ELSE Outcome(Success(NoPath, FALSE, sourcePath, targetPath),
                   renameSync(fs, sourcePath, targetPath), ds2)

HandleMoveIdempotent(fs, ds, a) ==
  LET fn == MoveFileName(a)
      sourcePath == PathJoin(TaskDir(a.fromState), fn.val)
      ds2 == ds \cup Ancestors(TaskDir(a.toState))
      targetPath == PathJoin(TaskDir(a.toState), fn.val)
  IN  IF a.fromState = a.toState
      THEN Outcome(Failure("InvalidTransition"), fs, ds)
      ELSE IF ~fn.ok THEN Outcome(Failure(fn.err), fs, ds)
      ELSE IF ~existsSync(fs, ds, sourcePath)
      THEN IF existsSync(fs, ds2, targetPath)
           THEN Outcome(Success(NoPath, FALSE, sourcePath, targetPath),
                        fs, ds2)
           ELSE Outcome(Failure("SourceNotFound"), fs, ds)
      ELSE IF existsSync(fs, ds2, targetPath)
      THEN Outcome(Failure("TargetExists"), fs, ds2)
      ELSE Outcome(Success(NoPath, FALSE, sourcePath, targetPath),
                   renameSync(fs, sourcePath, targetPath), ds2)

HandleMoveForwardOnly(fs, ds, a) ==
  LET fn == MoveFileName(a)
      sourcePath == PathJoin(TaskDir(a.fromState), fn.val)
      ds2 == ds \cup Ancestors(TaskDir(a.toState))
      targetPath == PathJoin(TaskDir(a.toState), fn.val)
  IN  IF ~(StateRank(a.fromState) < StateRank(a.toState))
      THEN Outcome(Failure("InvalidTransition"), fs, ds)
      ELSE IF ~fn.ok THEN Outcome(Failure(fn.err), fs, ds)
      ELSE IF ~existsSync(fs, ds, sourcePath)
      THEN Outcome(Failure("SourceNotFound"), fs, ds)
      ELSE IF existsSync(fs, ds2, targetPath)
      THEN Outcome(Failure("TargetExists"), fs, ds2)
      ELSE Outcome(Success(NoPath, FALSE, sourcePath, targetPath),
                   renameSync(fs, sourcePath, targetPath), ds2)

\* a move that appends a line to the document it moves
HandleMoveStamp(fs, ds, a) ==
  LET fn == MoveFileName(a)
      sourcePath == PathJoin(TaskDir(a.fromState), fn.val)
      ds2 == ds \cup Ancestors(TaskDir(a.toState))
      targetPath == PathJoin(TaskDir(a.toState), fn.val)
      moved == renameSync(fs, sourcePath, targetPath)
  IN  IF a.fromState = a.toState
      THEN Outcome(Failure("InvalidTransition"), fs, ds)
      ELSE IF ~fn.ok THEN Outcome(Failure(fn.err), fs, ds)
      ELSE IF ~existsSync(fs, ds, sourcePath)
      THEN Outcome(Failure("SourceNotFound"), fs, ds)
      ELSE IF existsSync(fs, ds2, targetPath)
      THEN Outcome(Failure("TargetExists"), fs, ds2)
      ELSE Outcome(Success(NoPath, FALSE, sourcePath, targetPath),
                   [moved EXCEPT ![targetPath] = @ \o << <<"m">> >>], ds2)

\* a move that also rewrites the "state: " line of the document it moves
HandleMoveRewrite(fs, ds, a) ==
  LET fn == MoveFileName(a)
      sourcePath == PathJoin(TaskDir(a.fromState), fn.val)
      ds2 == ds \cup Ancestors(TaskDir(a.toState))
      targetPath == PathJoin(TaskDir(a.toState), fn.val)
      moved == renameSync(fs, sourcePath, targetPath)
      rewritten ==
        [i \in DOMAIN moved[targetPath] |->
           IF /\ Len(moved[targetPath][i]) >= Len(Txt_state)
              /\ SubSeq(moved[targetPath][i], 1, Len(Txt_state)) = Txt_state
           THEN Txt_state \o StateDir(a.toState)
           ELSE moved[targetPath][i]]
  IN  IF a.fromState = a.toState
      THEN Outcome(Failure("InvalidTransition"), fs, ds)
      ELSE IF ~fn.ok THEN Outcome(Failure(fn.err), fs, ds)
      ELSE IF ~existsSync(fs, ds, sourcePath)
      THEN Outcome(Failure("SourceNotFound"), fs, ds)
      ELSE IF existsSync(fs, ds2, targetPath)
      THEN Outcome(Failure("TargetExists"), fs, ds2)
      ELSE Outcome(Success(NoPath, FALSE, sourcePath, targetPath),
                   [moved EXCEPT ![targetPath] = rewritten], ds2)

HandleMove(fs, ds, a) ==
  LET fn == MoveFileName(a)
      sourcePath == PathJoin(TaskDir(a.fromState), fn.val)
      ds2 == ds \cup Ancestors(TaskDir(a.toState))
      targetPath == PathJoin(TaskDir(a.toState), fn.val)
  IN  IF a.fromState = a.toState
      THEN Outcome(Failure("InvalidTransition"), fs, ds)
      ELSE IF ~fn.ok THEN Outcome(Failure(fn.err), fs, ds)
      ELSE IF ~existsSync(fs, ds, sourcePath)
      THEN Outcome(Failure("SourceNotFound"), fs, ds)
      ELSE IF existsSync(fs, ds2, targetPath)
      THEN Outcome(Failure("TargetExists"), fs, ds2)
      ELSE Outcome(Success(NoPath, FALSE, sourcePath, targetPath),
                   renameSync(fs, sourcePath, targetPath), ds2)

possiblePathsDoneFirst(a, name) ==
  IF a.type = "task"
  THEN IF IsDef(a.state)
       THEN << PathJoin(TaskDir(Val(a.state)), name) >>
       ELSE << PathJoin(TaskDir("done"), name),
               PathJoin(TaskDir("doing"), name),
               PathJoin(TaskDir("pending"), name) >>
  ELSE << PathJoin(<<nonTaskTypeToDir(a.type)>>, name) >>

possiblePaths(a, name) ==
  IF a.type = "task"
  THEN IF IsDef(a.state)
       THEN << PathJoin(TaskDir(Val(a.state)), name) >>
       ELSE << PathJoin(TaskDir("pending"), name),
               PathJoin(TaskDir("doing"), name),
               PathJoin(TaskDir("done"), name) >>
  ELSE << PathJoin(<<nonTaskTypeToDir(a.type)>>, name) >>

HandleGetTouch(fs, ds, a) ==
  LET fn == GetFileName(a)
      paths == possiblePaths(a, fn.val)
      hits == { i \in 1..Len(paths) : existsSync(fs, ds, paths[i]) }
  IN  IF ~fn.ok THEN Outcome(Failure(fn.err), fs, ds)
      ELSE IF hits # {}
      THEN Outcome(Success(paths[CHOOSE i \in hits : \A j \in hits : i <= j],
                           TRUE, NoPath, NoPath), fs, ds)
      ELSE Outcome(Success(paths[1], FALSE, NoPath, NoPath),
                   writeFileSync(fs, paths[1], <<>>), ds)

HandleGet(fs, ds, a) ==
  LET fn == GetFileName(a)
      paths == possiblePaths(a, fn.val)
      hits == { i \in 1..Len(paths) : existsSync(fs, ds, paths[i]) }
      first == CHOOSE i \in hits : \A j \in hits : i <= j
  IN  IF ~fn.ok THEN Outcome(Failure(fn.err), fs, ds)
      ELSE IF hits # {}
      THEN Outcome(Success(paths[first], TRUE, NoPath, NoPath), fs, ds)
      ELSE Outcome(Success(paths[1], FALSE, NoPath, NoPath), fs, ds)

HandleCallProvisionFirst(e, fs, ds, name, a, t) ==
  LET ds1 == ensureAgelumStructure(ds)
  IN  IF ~findRepoRootPath(e).found
      THEN Outcome(Failure("RootNotFound"), fs, ds1)
      ELSE CASE name = "create" -> HandleCreate(fs, ds1, a, t)
             [] name = "move" -> HandleMove(fs, ds1, a)
             [] name = "get" -> HandleGet(fs, ds1, a)
             [] OTHER -> Outcome(Failure("UnknownOperation"), fs, ds1)

\* the CallToolRequestSchema handler: prologue, dispatch, catch
HandleCall(e, fs, ds, name, a, t) ==
  IF ~findRepoRootPath(e).found THEN Outcome(Failure("RootNotFound"), fs, ds)
  ELSE LET ds1 == ensureAgelumStructure(ds)
       IN  CASE name = "create" -> HandleCreate(fs, ds1, a, t)
             [] name = "move" -> HandleMove(fs, ds1, a)
             [] name = "get" -> HandleGet(fs, ds1, a)
             [] OTHER -> Outcome(Failure("UnknownOperation"), fs, ds1)

(***************************************************************************)
(* Inputs of the model                                                     *)
(***************************************************************************)
MaxFiles == 2

T_a == <<"a">>

\* "03 a (5):", which sanitizes to the name derived from a / 3 / 5
T_03_a_5_colon == <<"0", "3", " ", "a", " ", "(", "5", ")", ":">>

T_03_a_5_md == <<"0", "3", " ", "a", " ", "(", "5", ")", ".", "m", "d">>

Identity(type, title, priority, storyPoints, fileName) ==
  [type |-> type, title |-> title, priority |-> priority,
   storyPoints |-> storyPoints, fileName |-> fileName]

\* the identity fields the calls of the model are made with
Identities ==
  { Identity("task", T_a, Some(Whole(3)), Some(Whole(5)), None),
    Identity("task", T_a, Some(Whole(3)), Some(Whole(5)),
             Some(T_03_a_5_colon)),
    Identity("task", T_a, Some(Whole(3)), Some(Whole(5)),
             Some(T_03_a_5_md)),
    Identity("task", T_a, None, None, None),
    Identity("task", T_a, None, None, Some(T_03_a_5_md)),
    Identity("task", T_a, Some(Whole(-1)), Some(Whole(5)), Some(T_03_a_5_md)),
    Identity("doc", T_a, None, None, None) }

\* "../done/03 a (5).md"
T_up_done_03_a_5_md == <<".", ".", "/", "d", "o", "n", "e", "/">> \o T_03_a_5_md

\* the identities of the move calls: the tasks, and one whose fileName
\* leads out of the state directory
MoveIdentities ==
  { id \in Identities : id.type = "task" }
    \cup { Identity("task", T_a, None, None, Some(T_up_done_03_a_5_md)) }

T_a_md == <<"a", ".", "m", "d">>

\* the identities of the get calls: also a task named by a title that ends
\* in ".md", with no priority and storyPoints
GetIdentities ==
  Identities \cup { Identity("task", T_a_md, None, None, None) }

Contents == { <<"h", "i">>, <<"y", "o">> }

\* the identity and content of the create calls of the model: every identity
\* with the first content, the ones with a priority also with the second
CreateRequests ==
  { r \in Identities \X Contents :
      IsDef(r[1].priority) \/ r[2] = <<"h", "i">> }

OptStates == {None} \cup { Some(st) : st \in TaskStates }

Times == {1}

CallArgs(id, content, state, fromState, toState) ==
  [type |-> id.type, title |-> id.title, content |-> content,
   state |-> state, priority |-> id.priority,
   storyPoints |-> id.storyPoints, fileName |-> id.fileName,
   fromState |-> fromState, toState |-> toState]

NoArgs == CallArgs(Identity("task", <<>>, None, None, None), None, None,
                   "-", "-")

\* "the same type, title, state, priority, storyPoints and fileName"
SameIdentity(a, b) ==
  /\ a.type = b.type /\ a.title = b.title /\ a.state = b.state
  /\ a.priority = b.priority /\ a.storyPoints = b.storyPoints
  /\ a.fileName = b.fileName

Environments ==
  { [cwdDepth |-> 1, gitLevels |-> {1}, hint |-> "none"],
    [cwdDepth |-> 1, gitLevels |-> {}, hint |-> "missing"] }

(***************************************************************************)
(* The server.  Invoke runs the whole handler on one request and leaves    *)
(* its response in last; Deliver hands the response to the caller, after   *)
(* which the next request is accepted.  prev is the call delivered just    *)
(* before the current one when that call changed the tree (a successful    *)
(* create or move), and NoCall otherwise.                                  *)
(***************************************************************************)
toolResultRethrowUnknown(res) ==
  IF res.ok
  THEN [kind |-> "result", isError |-> FALSE, text |-> <<"json", res>>]
  ELSE IF res.err = "UnknownOperation"
  THEN [kind |-> "fault", isError |-> FALSE, text |-> <<"", res.err>>]
  ELSE [kind |-> "result", isError |-> TRUE, text |-> <<"Error: ", res.err>>]

\* what the handler hands back to the protocol layer: the JSON text of a
\* success, or the catch block's `Error: ${error.message}` with isError;
\* kind "fault" would be an exception leaving the handler
toolResult(res) ==
  IF res.ok
  THEN [kind |-> "result", isError |-> FALSE, text |-> <<"json", res>>]
  ELSE [kind |-> "result", isError |-> TRUE, text |-> <<"Error: ", res.err>>]

NoCall ==
  [op |-> "none", args |-> NoArgs, at |-> 0, res |-> Failure("none"),
   reply |-> toolResult(Failure("none"))]

NoEnc == [op |-> "none"]

\* no other server process, and no configuration file
NoProcs == << >>

NoConf == [rootGitDirectory |-> "none", globalConfigRoot |-> "none"]

Init ==
  /\ env \in Environments
  /\ dirs = {}
  /\ files = << >>
  /\ last = NoCall
  /\ prev = NoCall
  /\ enc = NoEnc
  /\ procs = NoProcs
  /\ conf = NoConf

Invoke(name, a, t) ==
  \E out \in {HandleCall(env, files, dirs, name, a, t)} :
    /\ Cardinality(DOMAIN out.files) <= MaxFiles
    /\ files' = out.files
    /\ dirs' = out.dirs
    /\ last' = [op |-> name, args |-> a, at |-> t, res |-> out.res,
                reply |-> toolResult(out.res)]
    /\ UNCHANGED <<env, prev, enc, procs, conf>>

\* no response is in flight: the next request can be handled
Idle == last = NoCall

Create ==
  /\ Idle
  /\ \E r \in CreateRequests, st \in OptStates, t \in Times :
       Invoke("create", CallArgs(r[1], Some(r[2]), st, "-", "-"), t)

\* the schema of move admits no type but task
Move ==
  /\ Idle
  /\ \E id \in MoveIdentities, from \in TaskStates, to \in TaskStates :
       Invoke("move", CallArgs(id, None, None, from, to), 0)

Get ==
  /\ Idle
  /\ \E id \in GetIdentities, st \in OptStates :
       Invoke("get", CallArgs(id, None, st, "-", "-"), 0)

Unknown ==
  /\ Idle
  /\ Invoke("delete", NoArgs, 0)

Deliver ==
  /\ last # NoCall
  /\ prev' = IF last.res.ok /\ last.op \in {"create", "move"}
             THEN last ELSE NoCall
  /\ last' = NoCall
  /\ UNCHANGED <<env, dirs, files, enc, procs, conf>>

Next == Create \/ Move \/ Get \/ Unknown \/ Deliver

Spec == Init /\ [][Next]_vars

(***************************************************************************)
(* The codec on its own: one step encodes two identities, or resolves the  *)
(* filename of one argument record the way create, move and get do.        *)
(***************************************************************************)
CodecTitles ==
  { <<"a">>, <<"a", "/", "b">>, <<"a", "-", "b">>, <<"a", " ", " ", "b">>,
    <<"a", " ", "b">>, <<"a", " ", "(", "5", ")">>, <<"a", ":">>, <<" ">>,
    <<":">> }

CodecPriorities ==
  { None, Some(Whole(3)), Some(Fin(35)), Some(Fin(27)), Some(Fin(32)),
    Some(Whole(12)), Some(Whole(-1)), Some(NaN) }

CodecPoints == { None, Some(Whole(5)), Some(Whole(8)), Some(Fin(15)) }

CodecFileNames ==
  { None, Some(<<>>), Some(<<"x", ".", "m", "d">>),
    Some(<<"x", ".", "M", "D">>), Some(<<"a", ":", "b">>),
    Some(<<"a", "/", "b">>), Some(<<" ", "x", " ", " ", "y">>) }

CodecIdentities ==
  { Identity(ty, ti, pr, sp, None) :
      ty \in {"task", "doc"}, ti \in CodecTitles,
      pr \in CodecPriorities, sp \in CodecPoints }

Encode(id) == buildFileName(id.type, id.title, id.priority, id.storyPoints)

EncodePair ==
  /\ enc = NoEnc
  /\ \E a \in CodecIdentities, b \in CodecIdentities :
    /\ a.type = b.type
    /\ enc' = [op |-> "encode", a |-> a, b |-> b,
               fa |-> Encode(a), fb |-> Encode(b)]
    /\ UNCHANGED <<env, dirs, files, last, prev, procs, conf>>

ResolveName ==
  /\ enc = NoEnc
  /\ \E ti \in CodecTitles, pr \in CodecPriorities, sp \in CodecPoints,
        fn \in CodecFileNames :
    LET a == CallArgs(Identity("task", ti, pr, sp, fn), None, None, "-", "-")
    IN  /\ enc' = [op |-> "resolve", a |-> a, create |-> CreateFileName(a),
                   move |-> MoveFileName(a), get |-> GetFileName(a)]
        /\ UNCHANGED <<env, dirs, files, last, prev, procs, conf>>

PriorityValues ==
  { Whole(0), Whole(3), Fin(39), Whole(42), Whole(100), Huge(1),
    Fin(-5), Whole(-1), NaN, Infinity, [k |-> "inf", v |-> -1] }

FormatPriority ==
  /\ enc = NoEnc
  /\ \E p \in PriorityValues :
       enc' = [op |-> "priority", value |-> p, out |-> formatPriority(p)]
  /\ UNCHANGED <<env, dirs, files, last, prev, procs, conf>>

NextCodec == EncodePair \/ ResolveName \/ FormatPriority

SpecCodec == Init /\ [][NextCodec]_vars

(***************************************************************************)
(* Root resolution on its own: the working directory is at any depth up to *)
(* MaxCwdDepth, ".git" entries are at up to two levels of the way up, and  *)
(* one step resolves the root.                                             *)
(***************************************************************************)
MaxCwdDepth == 11

Hints == {"none", "exists", "missing"}

RootEnvironments ==
  { e \in [cwdDepth : 0..MaxCwdDepth,
           gitLevels : { g \in SUBSET (0..MaxCwdDepth) : Cardinality(g) <= 2 },
           hint : Hints] :
      e.gitLevels \subseteq 0..e.cwdDepth }

InitRoot ==
  /\ env \in RootEnvironments
  /\ dirs = {}
  /\ files = << >>
  /\ last = NoCall
  /\ prev = NoCall
  /\ enc = NoEnc
  /\ procs = NoProcs
  /\ conf = NoConf

ResolveRoot ==
  /\ enc = NoEnc
  /\ enc' = [op |-> "root", res |-> findRepoRootPath(env)]
  /\ UNCHANGED <<env, dirs, files, last, prev, procs, conf>>

NextRoot == ResolveRoot

SpecRoot == InitRoot /\ [][NextRoot]_vars

(***************************************************************************)
(* Two server processes on one repository.  Each process runs its handler  *)
(* synchronously, so within a process the file system calls of a request   *)
(* follow one another, but the calls of the two processes interleave: one  *)
(* action is the stretch of a handler up to and including one of the calls *)
(* whose outcome depends on the other process (existsSync, writeFileSync,  *)
(* renameSync).  procs[p] holds the request process p is handling, the     *)
(* point it has reached, its result and the number of requests it began.   *)
(***************************************************************************)
MaxRequests == 2

Procs == {1, 2}

ProcIdle == [pc |-> "idle", op |-> "none", a |-> NoArgs,
             res |-> Failure("none"), n |-> 0]

RaceEnvironment == [cwdDepth |-> 1, gitLevels |-> {1}, hint |-> "none"]

RaceIdentity == Identity("task", T_a, Some(Whole(3)), Some(Whole(5)), None)

InitRace ==
  /\ env = RaceEnvironment
  /\ dirs = {}
  /\ files = << >>
  /\ last = NoCall
  /\ prev = NoCall
  /\ enc = NoEnc
  /\ procs = [p \in Procs |-> ProcIdle]
  /\ conf = NoConf

\* the paths a request in progress works on
RaceCreatePath(a) ==
  PathJoin(TargetDirOf(a.type, Val(a.state)), CreateFileName(a).val)

RaceSourcePath(a) == PathJoin(TaskDir(a.fromState), MoveFileName(a).val)

RaceTargetPath(a) == PathJoin(TaskDir(a.toState), MoveFileName(a).val)

\* process p ends its request with result r
Finish(p, r) ==
  procs' = [procs EXCEPT ![p].pc = "done", ![p].res = r]

\* create, lines 347-387: the prologue, the name, mkdirSync and existsSync
CreateCheck(p) ==
  /\ procs[p].pc \in {"idle", "done"}
  /\ procs[p].n < MaxRequests
  /\ findRepoRootPath(env).found
  /\ \E content \in Contents, st \in TaskStates :
       \E a \in {CallArgs(RaceIdentity, Some(content), Some(st), "-", "-")} :
         \E ds2 \in {ensureAgelumStructure(dirs)
                       \cup Ancestors(TargetDirOf(a.type, st))} :
           /\ dirs' = ds2
           /\ procs' = [procs EXCEPT ![p] =
                [pc |-> IF existsSync(files, ds2, RaceCreatePath(a))
                        THEN "done" ELSE "write",
                 op |-> "create", a |-> a,
                 res |-> IF existsSync(files, ds2, RaceCreatePath(a))
                         THEN Failure("AlreadyExists") ELSE Failure("none"),
                 n |-> procs[p].n + 1]]
           /\ UNCHANGED <<env, files, last, prev, enc, conf>>

\* create, lines 389-407: buildFrontmatter, writeFileSync and the response
CreateWrite(p) ==
  /\ procs[p].pc = "write"
  /\ \E a \in {procs[p].a} :
       \E fm \in {buildFrontmatter(a.type, a.title, a.state, a.priority,
                                   a.storyPoints, 1)} :
         /\ files' = writeFileSync(files, RaceCreatePath(a),
                                   FileText(fm.val, a.title, Val(a.content)))
         /\ Finish(p, Success(RaceCreatePath(a), FALSE, NoPath, NoPath))
  /\ UNCHANGED <<env, dirs, last, prev, enc, conf>>

\* move, lines 347-444: the prologue, the transition, the name and the
\* existsSync of the source
MoveCheckSource(p) ==
  /\ procs[p].pc \in {"idle", "done"}
  /\ procs[p].n < MaxRequests
  /\ findRepoRootPath(env).found
  /\ \E from \in TaskStates, to \in TaskStates :
       \E a \in {CallArgs(RaceIdentity, None, None, from, to)} :
         /\ dirs' = ensureAgelumStructure(dirs)
         /\ procs' = [procs EXCEPT ![p] =
              [pc |-> IF from = to \/ RaceSourcePath(a) \notin DOMAIN files
                      THEN "done" ELSE "target",
               op |-> "move", a |-> a,
               res |-> IF from = to THEN Failure("InvalidTransition")
                       ELSE IF RaceSourcePath(a) \notin DOMAIN files
                       THEN Failure("SourceNotFound") ELSE Failure("none"),
               n |-> procs[p].n + 1]]
         /\ UNCHANGED <<env, files, last, prev, enc, conf>>

\* move, lines 446-452: mkdirSync and the existsSync of the target
MoveCheckTarget(p) ==
  /\ procs[p].pc = "target"
  /\ \E a \in {procs[p].a} :
       /\ dirs' = dirs \cup Ancestors(TaskDir(a.toState))
       /\ IF RaceTargetPath(a) \in DOMAIN files
          THEN Finish(p, Failure("TargetExists"))
          ELSE procs' = [procs EXCEPT ![p].pc = "rename"]
  /\ UNCHANGED <<env, files, last, prev, enc, conf>>

\* move, lines 454-464: renameSync and the response; renameSync throws
\* ENOENT when the source is gone, and replaces a file at the target
MoveRename(p) ==
  /\ procs[p].pc = "rename"
  /\ \E a \in {procs[p].a} :
       IF RaceSourcePath(a) \in DOMAIN files
       THEN /\ files' = renameSync(files, RaceSourcePath(a), RaceTargetPath(a))
            /\ Finish(p, Success(NoPath, FALSE, RaceSourcePath(a),
                                 RaceTargetPath(a)))
       ELSE /\ files' = files
            /\ Finish(p, Failure("ENOENT"))
  /\ UNCHANGED <<env, dirs, last, prev, enc, conf>>

NextRace ==
  \E p \in Procs :
    \/ CreateCheck(p)
    \/ CreateWrite(p)
    \/ MoveCheckSource(p)
    \/ MoveCheckTarget(p)
    \/ MoveRename(p)

SpecRace == InitRace /\ [][NextRace]_vars

(***************************************************************************)
(* The configured root.  conf.rootGitDirectory is the value in the         *)
(* configuration file now ("none" when the file or the key is absent),     *)
(* conf.globalConfigRoot the value run() read at start-up and handed to    *)
(* createAgelumMcpServer, whose handler closes over it.  Of the            *)
(* directories a configuration can name, "A" and "B" exist and "C" does    *)
(* not.  enc records, for the last invocation, the root it resolved and    *)
(* the configuration at that moment.                                       *)
(***************************************************************************)
ConfigRoots == {"none", "A", "B", "C"}

\* what findRepoRootPath meets when its fallback is r
HintOf(r) ==
  CASE r = "none" -> "none"
    [] r \in {"A", "B"} -> "exists"
    [] OTHER -> "missing"

\* run(): the configuration is read once, before the server is created
run ==
  /\ conf \in { c \in [rootGitDirectory : ConfigRoots,
                       globalConfigRoot : ConfigRoots] :
                  c.globalConfigRoot = c.rootGitDirectory }
  /\ env \in { e \in [cwdDepth : {1}, gitLevels : {{}, {0}, {1}},
                      hint : Hints] :
                 e.hint = HintOf(conf.globalConfigRoot) }
  /\ dirs = {}
  /\ files = << >>
  /\ last = NoCall
  /\ prev = NoCall
  /\ enc = NoEnc
  /\ procs = NoProcs

\* saveAgelumConfig: the configuration file gets another rootGitDirectory
saveAgelumConfig ==
  /\ \E r \in ConfigRoots \ {conf.rootGitDirectory} :
       conf' = [conf EXCEPT !.rootGitDirectory = r]
  /\ UNCHANGED <<env, dirs, files, last, prev, enc, procs>>

\* the prologue of a tool invocation: findRepoRootPath(globalConfigRoot)
\* with the value of the closure
InvokeRoot ==
  /\ \E res \in {findRepoRootPath(env)} :
       enc' = [op |-> "config", res |-> res,
               root |-> IF res.kind = "hint" THEN conf.globalConfigRoot
                        ELSE "cwd",
               configured |-> conf.rootGitDirectory]
  /\ enc' # enc
  /\ UNCHANGED <<env, dirs, files, last, prev, procs, conf>>

NextConfig == saveAgelumConfig \/ InvokeRoot

SpecConfig == run /\ [][NextConfig]_vars

(***************************************************************************)
(* One invocation, step by step.  enc holds the tool called and the state  *)
(* of findRepoRootPath's loop: currentLevel and depth are the variables    *)
(* currentPath and depth of the code, iter counts the executions of the    *)
(* loop body.  Once the root is resolved the rest of the handler has no    *)
(* loop and is one step, which leaves the response in last.  The handler   *)
(* is synchronous code: a step that can be taken is taken.                 *)
(***************************************************************************)
Tools == {"create", "move", "get"}

WalkArgs(name) ==
  CASE name = "create" ->
         CallArgs(RaceIdentity, Some(<<"h", "i">>), None, "-", "-")
    [] name = "move" -> CallArgs(RaceIdentity, None, None, "pending", "doing")
    [] OTHER -> CallArgs(RaceIdentity, None, None, "-", "-")

\* the request arrives and findRepoRootPath starts at process.cwd()
BeginWalk ==
  /\ enc = NoEnc
  /\ \E name \in Tools :
       enc' = [op |-> "walk", name |-> name, pc |-> "loop",
               currentLevel |-> env.cwdDepth, depth |-> 0, iter |-> 0,
               res |-> NoRoot]
  /\ UNCHANGED <<env, dirs, files, last, prev, procs, conf>>

LoopStepUnbounded ==
  /\ enc.op = "walk" /\ enc.pc = "loop"
  /\ enc' =
       IF enc.currentLevel \in env.gitLevels
       THEN [enc EXCEPT !.pc = "returned", !.iter = @ + 1,
                        !.res = [found |-> TRUE, kind |-> "git",
                                 level |-> enc.currentLevel]]
       ELSE IF enc.currentLevel = 0
       THEN [enc EXCEPT !.pc = "fallback", !.iter = @ + 1]
       ELSE [enc EXCEPT !.currentLevel = @ - 1, !.depth = @ + 1,
                        !.iter = @ + 1]
  /\ UNCHANGED <<env, dirs, files, last, prev, procs, conf>>

\* the loop test and one execution of the loop body, lines 296-307
LoopStep ==
  /\ enc.op = "walk" /\ enc.pc = "loop"
  /\ enc' =
       IF ~(enc.depth < MAX_DEPTH) THEN [enc EXCEPT !.pc = "fallback"]
       ELSE IF enc.currentLevel \in env.gitLevels
       THEN [enc EXCEPT !.pc = "returned", !.iter = @ + 1,
                        !.res = [found |-> TRUE, kind |-> "git",
                                 level |-> enc.currentLevel]]
       ELSE IF enc.currentLevel = 0
       THEN [enc EXCEPT !.pc = "fallback", !.iter = @ + 1]
       ELSE [enc EXCEPT !.currentLevel = @ - 1, !.depth = @ + 1,
                        !.iter = @ + 1]
  /\ UNCHANGED <<env, dirs, files, last, prev, procs, conf>>

\* the fallback to globalConfigRoot, lines 309-321
Fallback ==
  /\ enc.op = "walk" /\ enc.pc = "fallback"
  /\ enc' = [enc EXCEPT !.pc = "returned",
                        !.res = IF env.hint = "exists"
                                THEN [found |-> TRUE, kind |-> "hint",
                                      level |-> 0]
                                ELSE NoRoot]
  /\ UNCHANGED <<env, dirs, files, last, prev, procs, conf>>

\* the rest of the handler, lines 349-562, with the root just resolved
Respond ==
  /\ enc.op = "walk" /\ enc.pc = "returned"
  /\ Idle
  /\ \E name \in {enc.name} :
       \E a \in {WalkArgs(name)} : Invoke(name, a, 1)

NextWalk == BeginWalk \/ LoopStep \/ Fallback \/ Respond

SpecWalk == InitRoot /\ [][NextWalk]_vars /\ WF_vars(NextWalk)

(***************************************************************************)
(* Properties of create, move and get                                      *)
(***************************************************************************)
RootFound == findRepoRootPath(env).found

DefaultState(a) == IF IsDef(a.state) THEN Val(a.state) ELSE "pending"

\* the path create writes: target directory plus resolved filename
CreateTarget(a) ==
  PathJoin(TargetDirOf(a.type, DefaultState(a)), CreateFileName(a).val)

MoveSource(a) == PathJoin(TaskDir(a.fromState), MoveFileName(a).val)

MoveTarget(a) == PathJoin(TaskDir(a.toState), MoveFileName(a).val)

\* C1: a get that immediately follows a successful create and has the same
\* type, title, state, priority, storyPoints and fileName returns
\* exists = true and the path that create returned.
C1_CreateThenGet ==
  (last.op = "get" /\ prev.op = "create"
     /\ SameIdentity(prev.args, last.args))
    => (last.res.ok /\ last.res.exists /\ last.res.path = prev.res.path)

\* C2: a create whose target path already holds a file fails with
\* AlreadyExists and leaves every file as it was, whatever content it
\* supplied; in particular a create repeated right after a successful
\* create with the same identity and state.
C2_CreateNeverOverwrites ==
  [][ (last'.op = "create" /\ Idle)
        => /\ (CreateFileName(last'.args).ok
                 /\ CreateTarget(last'.args) \in DOMAIN files)
                => (last'.res.err = "AlreadyExists" /\ files' = files)
           /\ (prev.op = "create" /\ SameIdentity(prev.args, last'.args))
                => (last'.res.err = "AlreadyExists" /\ files' = files
                      /\ prev.res.path \in DOMAIN files') ]_vars

C2_Witness ==
  /\ last.op = "create" /\ last.res.err = "AlreadyExists"
  /\ prev.op = "create" /\ SameIdentity(prev.args, last.args)
  /\ prev.args.content # last.args.content
  /\ prev.res.path \in DOMAIN files

\* C3: a successful move leaves the file under its resolved name in
\* tasks/<toState> with the content it had in tasks/<fromState>, leaves no
\* file of that name in tasks/<fromState>, returns those two paths as
\* {from, to}, and leaves every other file unchanged.
C3_MoveRelocates ==
  [][ (last'.op = "move" /\ Idle /\ last'.res.ok)
        => LET a == last'.args
               name == MoveFileName(a).val
               from == <<tasks, StateDir(a.fromState), name>>
               to == <<tasks, StateDir(a.toState), name>>
           IN  /\ last'.res.from = from /\ last'.res.to = to
               /\ from \in DOMAIN files /\ from \notin DOMAIN files'
               /\ to \in DOMAIN files' /\ files'[to] = files[from]
               /\ DOMAIN files' = (DOMAIN files \ {from}) \cup {to}
               /\ \A q \in DOMAIN files \ {from} : files'[q] = files[q]
    ]_vars

C3_Witness ==
  /\ last.op = "move" /\ last.res.ok
  /\ last.res.to \in DOMAIN files /\ last.res.from \notin DOMAIN files
  /\ Cardinality(DOMAIN files) > 1

\* C4: with two distinct states and a resolvable filename, move fails with
\* SourceNotFound when nothing exists at the source path, also when a file
\* of that name is in tasks/<toState>; it fails with TargetExists when the
\* source and the destination both exist, and then neither file is touched.
C4_MoveErrors ==
  [][ (last'.op = "move" /\ Idle /\ RootFound
         /\ last'.args.fromState # last'.args.toState
         /\ MoveFileName(last'.args).ok)
        => LET src == MoveSource(last'.args)
               tgt == MoveTarget(last'.args)
           IN  /\ src \notin DOMAIN files
                    => (last'.res.err = "SourceNotFound" /\ files' = files)
               /\ (src \in DOMAIN files /\ tgt \in DOMAIN files)
                    => (last'.res.err = "TargetExists" /\ files' = files)
    ]_vars

C4_Witness ==
  /\ last.op = "move" /\ last.res.err = "TargetExists"
  /\ MoveSource(last.args) \in DOMAIN files
  /\ MoveTarget(last.args) \in DOMAIN files
  /\ files[MoveSource(last.args)] # files[MoveTarget(last.args)]

\* C5: once a repository root is resolved, a move whose fromState equals
\* its toState fails with InvalidTransition, whether or not the file exists
\* and whether or not a filename can be resolved from the arguments.
C5_SameStateIsInvalid ==
  (last.op = "move" /\ RootFound
     /\ last.args.fromState = last.args.toState)
    => (~last.res.ok /\ last.res.err = "InvalidTransition")

C5_Witness ==
  /\ last.op = "move" /\ last.args.fromState = last.args.toState
  /\ last.res.err = "InvalidTransition"
  /\ ~MoveFileName(last.args).ok
  /\ DOMAIN files # {}

\* C6: a move repeated with the same arguments right after it succeeded
\* fails with SourceNotFound, and the file stays in tasks/<toState> with
\* its content unchanged.
C6_RepeatedMoveFails ==
  [][ (last'.op = "move" /\ Idle /\ prev.op = "move"
         /\ last'.args = prev.args)
        => /\ last'.res.err = "SourceNotFound"
           /\ prev.res.to \in DOMAIN files'
           /\ files' = files ]_vars

C6_Witness ==
  /\ last.op = "move" /\ prev.op = "move" /\ last.args = prev.args
  /\ last.res.err = "SourceNotFound"
  /\ prev.res.to \in DOMAIN files

\* C7: for every ordered pair of distinct states, a move of a file that is
\* in tasks/<fromState> and has no namesake in tasks/<toState> succeeds;
\* nothing but the current tree decides the outcome.
C7_AnyTransitionAllowed ==
  [][ (last'.op = "move" /\ Idle
         /\ last'.args.fromState # last'.args.toState
         /\ MoveFileName(last'.args).ok
         /\ MoveSource(last'.args) \in DOMAIN files
         /\ MoveTarget(last'.args) \notin DOMAIN files)
        => (last'.res.ok /\ MoveTarget(last'.args) \in DOMAIN files')
    ]_vars

C7_Witness ==
  /\ last.op = "move" /\ last.res.ok
  /\ last.args.fromState = "done" /\ last.args.toState = "pending"
  /\ prev.op = "move" /\ prev.args.toState = "done"

(***************************************************************************)
(* Properties of the codec                                                 *)
(***************************************************************************)
BothEncoded == enc.op = "encode" /\ enc.fa.ok /\ enc.fb.ok

\* C8 as stated: two identities of one type that differ in title or in
\* storyPoints encode to different filenames, equal ones to the same.
C8_DifferentIdentityDifferentName ==
  BothEncoded
    => /\ (enc.a.title # enc.b.title
             \/ enc.a.storyPoints # enc.b.storyPoints)
            => enc.fa.val # enc.fb.val
       /\ enc.a = enc.b => enc.fa.val = enc.fb.val

\* C8 amended: two identities of one type encode to different filenames
\* when they have the same storyPoints and titles whose sanitized forms
\* differ, or the same title and different storyPoints; equal identities
\* encode to the same filename.
C8_DistinctAfterSanitizing ==
  BothEncoded
    => /\ (enc.a.storyPoints = enc.b.storyPoints
             /\ sanitizeFileNamePart(enc.a.title)
                  # sanitizeFileNamePart(enc.b.title))
            => enc.fa.val # enc.fb.val
       /\ (enc.a.title = enc.b.title
             /\ enc.a.storyPoints # enc.b.storyPoints)
            => enc.fa.val # enc.fb.val
       /\ enc.a = enc.b => enc.fa.val = enc.fb.val

C8_Witness ==
  /\ BothEncoded /\ enc.a.type = "doc"
  /\ enc.a.title = enc.b.title
  /\ ~IsDef(enc.a.storyPoints) /\ IsDef(enc.b.storyPoints)
  /\ enc.fa.val # enc.fb.val

BothTasks ==
  /\ BothEncoded /\ enc.a.type = "task"
  /\ enc.a.title = enc.b.title /\ enc.a.storyPoints = enc.b.storyPoints

\* C9 as stated: two task identities with the same title and storyPoints
\* and different valid priorities encode to different filenames.
C9_DifferentPriorityDifferentName ==
  (BothTasks /\ enc.a.priority # enc.b.priority)
    => enc.fa.val # enc.fb.val

\* C9 amended: the encoding is deterministic, and two task identities with
\* the same title and storyPoints whose valid priorities have different
\* integer parts encode to different filenames.
C9_DifferentIntegerPartDifferentName ==
  /\ (BothTasks
        /\ Trunc(Val(enc.a.priority)) # Trunc(Val(enc.b.priority)))
       => enc.fa.val # enc.fb.val
  /\ (BothTasks /\ enc.a.priority = enc.b.priority)
       => enc.fa.val = enc.fb.val

C9_Witness ==
  /\ BothTasks
  /\ enc.a.priority = Some(Fin(27)) /\ enc.b.priority = Some(Fin(32))
  /\ enc.fa.val # enc.fb.val

\* C10: for every explicit fileName, create, move and get resolve to the
\* same filename, the fileName sanitized like a title with ".md" appended
\* unless already present; a supplied fileName always takes precedence.
C10_SameResolutionEverywhere ==
  (enc.op = "resolve" /\ IsDef(enc.a.fileName))
    => LET n == Ok(ensureMdExtension(
                     sanitizeFileNamePart(Val(enc.a.fileName))))
       IN  enc.create = n /\ enc.move = n /\ enc.get = n

(***************************************************************************)
(* Properties of validation and of get's candidates                        *)
(***************************************************************************)
\* C11: every create of a task in which priority or storyPoints is absent
\* fails, whatever title, content, state and fileName it carries (a create
\* that fails writes no file).
C11_TaskNeedsPriorityAndPoints ==
  (last.op = "create" /\ last.args.type = "task"
     /\ (~IsDef(last.args.priority) \/ ~IsDef(last.args.storyPoints)))
    => (~last.res.ok /\ last.res.path \notin DOMAIN files)

\* C12: in create, move and get, when no fileName is supplied and the
\* sanitized title is empty (only whitespace, only reserved characters),
\* the filename resolution fails with InvalidTitle.
C12_EmptyTitleIsInvalid ==
  (enc.op = "resolve" /\ ~IsDef(enc.a.fileName)
     /\ sanitizeFileNamePart(enc.a.title) = <<>>)
    => /\ enc.create = Throw("InvalidTitle")
       /\ enc.move = Throw("InvalidTitle")
       /\ enc.get = Throw("InvalidTitle")

\* the candidates of a get as the claim lists them
Candidates(a) ==
  LET name == GetFileName(a).val
  IN  IF a.type # "task" THEN << <<nonTaskTypeToDir(a.type), name>> >>
      ELSE IF IsDef(a.state) THEN << <<tasks, StateDir(Val(a.state)), name>> >>
      ELSE << <<tasks, pending, name>>, <<tasks, doing, name>>,
              <<tasks, done, name>> >>

\* C13: a get that resolves a filename returns the first candidate that
\* exists with exists = true, and the first candidate with exists = false
\* when none exists; a name present in doing and done but not in pending
\* gives the doing path; exists is true exactly when the returned path
\* exists.
C13_FirstExistingCandidate ==
  (last.op = "get" /\ last.res.ok)
    => \E c \in {Candidates(last.args)} :
         /\ \A i \in 1..Len(c) :
              (c[i] \in DOMAIN files /\ \A j \in 1..(i - 1) : c[j] \notin DOMAIN files)
                => (last.res.path = c[i] /\ last.res.exists)
         /\ (\A i \in 1..Len(c) : c[i] \notin DOMAIN files)
              => (last.res.path = c[1] /\ ~last.res.exists)
         /\ (Len(c) = 3 /\ c[1] \notin DOMAIN files
               /\ c[2] \in DOMAIN files /\ c[3] \in DOMAIN files)
              => last.res.path = <<tasks, doing, GetFileName(last.args).val>>
         /\ last.res.exists <=> existsSync(files, dirs, last.res.path)

C13_Witness ==
  /\ last.op = "get" /\ last.res.ok /\ last.res.exists
  /\ last.args.type = "task" /\ ~IsDef(last.args.state)
  /\ last.res.path = <<tasks, doing, T_03_a_5_md>>
  /\ <<tasks, done, T_03_a_5_md>> \in DOMAIN files
  /\ <<tasks, pending, T_03_a_5_md>> \notin DOMAIN files

(***************************************************************************)
(* Properties of the derived filename                                      *)
(***************************************************************************)
Points(id) == <<" ", "(">> \o formatStoryPoints(Val(id.storyPoints)) \o <<")">>

\* C14: a derived filename is "<PP> <sanitized title> (<storyPoints>).md"
\* for a task, "<sanitized title> (<storyPoints>).md" for another type with
\* storyPoints and "<sanitized title>.md" for another type without, where
\* a priority given for a non-task type does not appear; task "a b" with
\* priority 3 and storyPoints 5 is named "03 a b (5).md".
C14_DerivedNameFormat ==
  (enc.op = "encode" /\ enc.fa.ok)
    => LET id == enc.a
           t == sanitizeFileNamePart(id.title)
       IN  /\ id.type = "task"
                => enc.fa.val = formatPriority(Val(id.priority)).val
                                  \o <<" ">> \o t \o Points(id) \o DotMd
           /\ (id.type # "task" /\ IsDef(id.storyPoints))
                => enc.fa.val = t \o Points(id) \o DotMd
           /\ (id.type # "task" /\ ~IsDef(id.storyPoints))
                => enc.fa.val = t \o DotMd
           /\ id = Identity("task", <<"a", " ", "b">>, Some(Whole(3)),
                            Some(Whole(5)), None)
                => enc.fa.val = <<"0", "3", " ", "a", " ", "b", " ", "(",
                                  "5", ")", ".", "m", "d">>

C14_Witness ==
  /\ enc.op = "encode" /\ enc.fa.ok /\ enc.fb.ok
  /\ enc.a.type = "doc" /\ enc.a.priority = Some(Whole(3))
  /\ ~IsDef(enc.a.storyPoints) /\ enc.a.title = <<"a", "/", "b">>
  /\ enc.fa.val = <<"a", "-", "b", ".", "m", "d">>
  /\ enc.b = Identity("doc", <<"a", " ", "b">>, None, Some(Whole(5)), None)
  /\ enc.fb.val = <<"a", " ", "b", " ", "(", "5", ")", ".", "m", "d">>

\* the integer part of a non-negative finite number, in decimal digits
IntegerPart(p) ==
  IF p.k = "big" THEN <<DigitChar(p.v)>> \o [i \in 1..21 |-> "0"]
  ELSE NatToString(p.v \div 10)

\* C15: a finite priority >= 0 encodes to its integer part in decimal,
\* left-padded with "0" to at least two digits (3 -> "03", 42 -> "42",
\* 100 -> "100"); a negative, NaN or infinite priority fails with
\* InvalidPriority.
C15_PriorityEncoding ==
  enc.op = "priority"
    => LET p == enc.value
           digits == IntegerPart(p)
       IN  /\ (isFinite(p) /\ p.v >= 0)
                => enc.out = Ok(IF Len(digits) < 2 THEN <<"0">> \o digits
                                ELSE digits)
           /\ ~(isFinite(p) /\ p.v >= 0) => enc.out = Throw("InvalidPriority")
           /\ p = Whole(3) => enc.out.val = <<"0", "3">>
           /\ p = Whole(42) => enc.out.val = <<"4", "2">>
           /\ p = Whole(100) => enc.out.val = <<"1", "0", "0">>

(***************************************************************************)
(* Properties of root resolution                                           *)
(***************************************************************************)
\* the levels of the ten directories the walk may examine that hold ".git"
WalkHits == { l \in env.gitLevels : env.cwdDepth - l < 10 }

\* C16: the walk examines the working directory and its parents, ten
\* directories at most, and returns the nearest one with a ".git" entry;
\* the hint is then ignored, and a ".git" beyond the bound is not returned.
C16_NearestGitWithinBound ==
  enc.op = "root"
    => /\ WalkHits # {}
            => /\ enc.res.found /\ enc.res.kind = "git"
               /\ enc.res.level \in WalkHits
               /\ \A l \in WalkHits : l <= enc.res.level
       /\ (enc.res.found /\ enc.res.kind = "git")
            => (enc.res.level \in env.gitLevels
                  /\ env.cwdDepth - enc.res.level < 10)

C16_Witness ==
  /\ enc.op = "root" /\ env.cwdDepth = 11 /\ env.gitLevels = {1, 5}
  /\ env.hint = "exists"
  /\ enc.res.kind = "git" /\ enc.res.level = 5

\* C17: when the walk finds no ".git", the result is the hint if and only
\* if a hint was given and exists on disk, else not-found; no directory
\* other than a ".git" directory on the walk or the hint is ever returned.
C17_FallbackHint ==
  enc.op = "root"
    => /\ WalkHits = {}
            => /\ env.hint = "exists"
                    => (enc.res.found /\ enc.res.kind = "hint")
               /\ env.hint # "exists" => ~enc.res.found
       /\ enc.res.found
            => \/ enc.res.kind = "git" /\ enc.res.level \in WalkHits
               \/ enc.res.kind = "hint" /\ env.hint = "exists"

C17_Witness ==
  /\ enc.op = "root" /\ env.cwdDepth = 11 /\ env.gitLevels = {1}
  /\ env.hint = "exists"
  /\ enc.res.found /\ enc.res.kind = "hint"

(***************************************************************************)
(* Properties of the prologue and of create's effect                       *)
(***************************************************************************)
\* C18: when no root is resolved, every invocation (create, move, get,
\* unknown tool) fails with RootNotFound before anything else is looked at,
\* and no file or directory is created or changed.
C18_RootNotFoundFirst ==
  [][ (last'.op # "none" /\ Idle /\ ~RootFound)
        => /\ last'.res = Failure("RootNotFound")
           /\ files' = files /\ dirs' = dirs
           /\ dirs' = {} /\ DOMAIN files' = {} ]_vars

C18_Witness ==
  /\ ~RootFound /\ last.op = "move"
  /\ last.args.fromState = last.args.toState
  /\ last.res.err = "RootNotFound"
  /\ dirs = {}

\* the name of the fixed directory of a non-task type
FixedDir(type) ==
  CASE type = "epic" -> <<"e", "p", "i", "c", "s">>
    [] type = "plan" -> <<"p", "l", "a", "n", "s">>
    [] type = "doc" -> <<"d", "o", "c", "s">>
    [] type = "command" -> <<"c", "o", "m", "m", "a", "n", "d", "s">>
    [] type = "skill" -> <<"s", "k", "i", "l", "l", "s">>
    [] type = "agent" -> <<"a", "g", "e", "n", "t", "s">>
    [] type = "context" -> <<"c", "o", "n", "t", "e", "x", "t">>

\* <root>/agelum, tasks, and the ten taxonomy directories
Taxonomy ==
  { <<>>, <<tasks>>, <<tasks, pending>>, <<tasks, doing>>, <<tasks, done>> }
    \cup { <<FixedDir(ty)>> : ty \in DocumentTypes \ {"task"} }

\* the directory a path lies in
Parent(p) == SubSeq(p, 1, Len(p) - 1)

\* C19: after every invocation with a resolved root, failing or not,
\* <root>/agelum and the ten taxonomy directories exist; provisioning a
\* provisioned tree changes nothing, no directory is ever removed, an
\* invocation that fails or only reads leaves every file as it was, and
\* the directory a create writes into or a move renames into exists.
C19_TaxonomyProvisioned ==
  [][ (last'.op # "none" /\ Idle /\ RootFound)
        => /\ Taxonomy \subseteq dirs'
           /\ dirs \subseteq dirs'
           /\ Taxonomy \subseteq dirs
                => (ensureAgelumStructure(dirs) = dirs /\ dirs' = dirs)
           /\ ensureAgelumStructure(dirs') = dirs'
           /\ (~last'.res.ok \/ last'.op \notin {"create", "move"})
                => files' = files
           /\ (last'.res.ok /\ last'.op = "create")
                => Parent(last'.res.path) \in dirs'
           /\ (last'.res.ok /\ last'.op = "move")
                => Parent(last'.res.to) \in dirs' ]_vars

C19_Witness ==
  /\ RootFound /\ last.op = "delete" /\ ~last.res.ok
  /\ prev.op = "create" /\ prev.res.path \in DOMAIN files
  /\ Taxonomy \subseteq dirs /\ Cardinality(dirs) = 12

\* C20: a successful create writes exactly one new file, at the path it
\* returns: in tasks/<state> for a task (pending when state is omitted), in
\* the fixed directory of the type otherwise, whatever state is given; no
\* other file is created, removed or modified.
C20_CreateWritesOneFile ==
  [][ (last'.op = "create" /\ Idle /\ last'.res.ok)
        => LET a == last'.args
               p == last'.res.path
               dir == IF a.type # "task" THEN <<FixedDir(a.type)>>
                      ELSE IF IsDef(a.state)
                      THEN <<tasks, StateDir(Val(a.state))>>
                      ELSE <<tasks, pending>>
           IN  /\ p \notin DOMAIN files
               /\ DOMAIN files' = DOMAIN files \cup {p}
               /\ \A q \in DOMAIN files : files'[q] = files[q]
               /\ Parent(p) = dir
               /\ p[Len(p)] = CreateFileName(a).val
               /\ \A ty \in DocumentTypes \ {"task"}, st \in TaskStates :
                    TargetDirOf(ty, st) = <<FixedDir(ty)>> ]_vars

C20_Witness ==
  /\ last.op = "create" /\ last.res.ok
  /\ last.args.type = "doc" /\ last.args.state = Some("done")
  /\ last.res.path = <<FixedDir("doc"), <<"a", ".", "m", "d">> >>
  /\ last.res.path \in DOMAIN files
  /\ prev.op = "create" /\ prev.res.path \in DOMAIN files
  /\ Cardinality(DOMAIN files) = 2

(***************************************************************************)
(* Frame properties                                                        *)
(***************************************************************************)
\* C21: a get, whether it returns exists = true, exists = false or an
\* error, leaves the set of files and the content of every file as they
\* were.
C21_GetIsPure ==
  [][ (last'.op = "get" /\ Idle) => files' = files ]_vars

C21_Witness ==
  /\ last.op = "get" /\ last.res.ok /\ ~last.res.exists
  /\ prev.op = "create" /\ prev.res.path \in DOMAIN files
  /\ last.res.path \notin DOMAIN files

\* C22: the handler never raises: every failure of create, move or get and
\* every call of another tool comes back as a result with isError and the
\* text "Error: " followed by the message of the error, and every success
\* comes back without isError.
C22_ErrorsAreResults ==
  last.op # "none"
    => /\ last.reply.kind = "result"
       /\ last.res.ok => ~last.reply.isError
       /\ ~last.res.ok
            => (last.reply.isError
                  /\ last.reply.text = <<"Error: ", last.res.err>>)
       /\ (last.op \notin {"create", "move", "get"} /\ RootFound)
            => (last.reply.isError
                  /\ last.reply.text = <<"Error: ", "UnknownOperation">>)

C22_Witness ==
  /\ last.op = "delete" /\ RootFound
  /\ last.reply.kind = "result" /\ last.reply.isError
  /\ last.reply.text = <<"Error: ", "UnknownOperation">>
  /\ DOMAIN files # {}

\* C26: the source and the destination of every move lie directly in
\* tasks/<fromState> and tasks/<toState>, whatever the title and fileName
\* (path separators and ".." included), and a move looks at no file
\* outside these directories: with no file in tasks/<fromState> it can
\* only report that the source is missing.
C26_MoveStaysInStateDirs ==
  [][ (last'.op = "move" /\ Idle /\ RootFound
         /\ last'.args.fromState # last'.args.toState
         /\ MoveFileName(last'.args).ok)
        => LET a == last'.args
           IN  /\ Parent(MoveSource(a)) = <<tasks, StateDir(a.fromState)>>
               /\ Parent(MoveTarget(a)) = <<tasks, StateDir(a.toState)>>
               /\ (\A q \in DOMAIN files :
                      Parent(q) # <<tasks, StateDir(a.fromState)>>)
                    => last'.res.err = "SourceNotFound" ]_vars

\* the filename get guesses from the title alone
TitleOnlyName(title) ==
  LET s == sanitizeFileNamePart(title)
  IN  IF EndsWith(toLowerCase(s), DotMd) THEN s ELSE s \o DotMd

\* a get of a task by title, without fileName and without full metadata
GetByTitleOnly ==
  /\ last.op = "get" /\ RootFound /\ last.args.type = "task"
  /\ ~IsDef(last.args.fileName) /\ last.args.title # <<>>
  /\ (~IsDef(last.args.priority) \/ ~IsDef(last.args.storyPoints))

\* the state directories such a get probes
ProbedStates ==
  IF IsDef(last.args.state) THEN {Val(last.args.state)} ELSE TaskStates

\* C27 as stated: such a get resolves "<sanitized title>.md" and returns a
\* path and an exists flag, true only when a file of that name exists in a
\* probed state directory.
C27_TitleDotMd ==
  GetByTitleOnly
    => LET name == sanitizeFileNamePart(last.args.title) \o DotMd
       IN  /\ last.res.ok /\ Len(last.res.path) = 3
           /\ last.res.path[3] = name
           /\ last.res.exists
                <=> \E st \in ProbedStates :
                      <<tasks, StateDir(st), name>> \in DOMAIN files

\* C27 amended: such a get resolves the sanitized title, with ".md"
\* appended unless the sanitized title already ends in ".md", and returns
\* a path and an exists flag, true only when a file of that name exists in
\* a probed state directory; a task stored under its derived name is
\* reported with exists = false.
C27_TitleOnlyGuess ==
  GetByTitleOnly
    => LET name == TitleOnlyName(last.args.title)
       IN  /\ last.res.ok /\ Len(last.res.path) = 3
           /\ last.res.path[3] = name
           /\ last.res.exists
                <=> \E st \in ProbedStates :
                      <<tasks, StateDir(st), name>> \in DOMAIN files

C27_Witness ==
  /\ GetByTitleOnly /\ last.args.title = T_a /\ ~IsDef(last.args.state)
  /\ <<tasks, pending, T_03_a_5_md>> \in DOMAIN files
  /\ prev.op = "create" /\ prev.args.title = T_a
  /\ last.res.ok /\ ~last.res.exists
  /\ last.res.path = <<tasks, pending, T_a_md>>

\* C30: an invocation that returns an error leaves every file as it was,
\* in path and content, also a create that fails on its priority after
\* the existence check; it can only have created missing directories.
C30_ErrorsChangeNoFile ==
  [][ (last'.op # "none" /\ Idle /\ last'.reply.isError)
        => (files' = files /\ dirs \subseteq dirs') ]_vars

C30_Witness ==
  /\ last.op = "create" /\ last.reply.isError
  /\ last.res.err = "InvalidPriority" /\ IsDef(last.args.fileName)
  /\ CreateTarget(last.args) \notin DOMAIN files
  /\ Parent(CreateTarget(last.args)) \in dirs
  /\ DOMAIN files # {}

(***************************************************************************)
(* Properties of the written text                                          *)
(***************************************************************************)
\* the lines before the type-specific ones, and the lines after them
HeadLines(a, t) ==
  << <<"-", "-", "-">>,
     <<"t", "i", "t", "l", "e", ":", " ">> \o a.title,
     <<"c", "r", "e", "a", "t", "e", "d", ":", " ">> \o toISOString(t),
     <<"t", "y", "p", "e", ":", " ">> \o TypeText(a.type) >>

TailLines(a) ==
  << <<"-", "-", "-">>, <<>>, <<"#", " ">> \o a.title, <<>>, Val(a.content) >>

PointsLine(a) ==
  <<"s", "t", "o", "r", "y", "P", "o", "i", "n", "t", "s", ":", " ">>
    \o formatStoryPoints(Val(a.storyPoints))

\* C25: the file a create writes is "---", "title: <title>", "created:
\* <timestamp>", "type: <type>", for a task "state: <state>", "priority:
\* <PP>" and "storyPoints: <n>", for another type "storyPoints: <n>" when
\* supplied, "---", a blank line, "# <title>", a blank line and the
\* content, each line ended by a newline; task "a" with priority 3 and
\* storyPoints 5 has "state: pending", "priority: 03", "storyPoints: 5".
C25_WrittenText ==
  [][ (last'.op = "create" /\ Idle /\ last'.res.ok)
        => LET a == last'.args
               text == files'[last'.res.path]
           IN  /\ a.type = "task"
                    => /\ IsDef(a.priority) /\ IsDef(a.storyPoints)
                       /\ text = HeadLines(a, last'.at)
                            \o << <<"s", "t", "a", "t", "e", ":", " ">>
                                    \o StateDir(DefaultState(a)),
                                  <<"p", "r", "i", "o", "r", "i", "t", "y",
                                    ":", " ">>
                                    \o formatPriority(Val(a.priority)).val,
                                  PointsLine(a) >>
                            \o TailLines(a)
               /\ (a.type # "task" /\ IsDef(a.storyPoints))
                    => text = HeadLines(a, last'.at) \o <<PointsLine(a)>>
                                \o TailLines(a)
               /\ (a.type # "task" /\ ~IsDef(a.storyPoints))
                    => text = HeadLines(a, last'.at) \o TailLines(a)
               /\ (a.type = "task" /\ a.priority = Some(Whole(3))
                     /\ a.storyPoints = Some(Whole(5)) /\ ~IsDef(a.state))
                    => /\ text[4] = <<"t", "y", "p", "e", ":", " ",
                                      "t", "a", "s", "k">>
                       /\ text[5] = <<"s", "t", "a", "t", "e", ":", " ", "p",
                                      "e", "n", "d", "i", "n", "g">>
                       /\ text[6] = <<"p", "r", "i", "o", "r", "i", "t", "y",
                                      ":", " ", "0", "3">>
                       /\ text[7] = <<"s", "t", "o", "r", "y", "P", "o", "i",
                                      "n", "t", "s", ":", " ", "5">>
                       /\ text[10] = <<"#", " ", "a">> ]_vars

(***************************************************************************)
(* Concurrent server processes                                             *)
(***************************************************************************)
\* process p takes the step that leaves the point pc of its request
StepFrom(p, pc) == procs[p].pc = pc /\ procs'[p].pc = "done"

\* C23: when the existence checks and the writes of two concurrent creates
\* of one path interleave, a create that reaches its write while a file is
\* already at the path fails with AlreadyExists and leaves the files as they
\* are, so that only one of the calls succeeds and the first content survives
C23_ConcurrentCreateNeverOverwrites ==
  [][ \A p \in Procs :
        (StepFrom(p, "write") /\ RaceCreatePath(procs[p].a) \in DOMAIN files)
        => (procs'[p].res.err = "AlreadyExists" /\ files' = files) ]_vars

\* C28: a move that reaches its rename while a concurrent create or move has
\* put a file at the destination fails with TargetExists and leaves both
\* files as they are
C28_ConcurrentMoveNeverOverwrites ==
  [][ \A p \in Procs :
        (StepFrom(p, "rename") /\ RaceSourcePath(procs[p].a) \in DOMAIN files
           /\ RaceTargetPath(procs[p].a) \in DOMAIN files)
        => (procs'[p].res.err = "TargetExists" /\ files' = files) ]_vars

(***************************************************************************)
(* The configured root over the life of a server                           *)
(***************************************************************************)
\* C24: an invocation resolves its root with the rootGitDirectory that is
\* configured at the time of the invocation as its fallback: the result is
\* the one findRepoRootPath gives for that value, and a root taken from
\* the fallback is that value
C24_HintReadPerInvocation ==
  enc.op = "config" =>
    /\ enc.res = findRepoRootPath([env EXCEPT !.hint = HintOf(enc.configured)])
    /\ enc.res.kind = "hint" => enc.root = enc.configured

(***************************************************************************)
(* Termination                                                             *)
(***************************************************************************)
\* C29: every invocation of create, move and get terminates: the loop of
\* root discovery runs its body at most 10 times, what it returns is the
\* root findRepoRootPath resolves, and the invocation eventually leaves a
\* response, a result or an error
C29_InvocationTerminates ==
  /\ [](enc.op = "walk" => enc.iter <= 10)
  /\ [](enc.op = "walk" /\ enc.pc = "returned"
          => enc.res = findRepoRootPath(env))
  /\ <>(last.op \in Tools /\ last.reply.kind = "result")

\* a walk that stopped after its tenth iteration, and its response
C29_Witness ==
  /\ enc.op = "walk" /\ enc.iter = 10 /\ enc.pc = "returned"
  /\ last.op \in Tools /\ last.reply.kind = "result"

(***************************************************************************)
(* One filename in several state directories                               *)
(***************************************************************************)
\* the states other than st whose directory holds a file called name
Namesakes(fs, st, name) ==
  { s \in TaskStates \ {st} : <<tasks, StateDir(s), name>> \in DOMAIN fs }

\* C31: create looks for an existing file in the directory of its own
\* state only: a create of a task whose arguments are valid and whose
\* target path is free succeeds also when a file of that name is in
\* another state directory, after which the name is in both; and a move
\* between two states that both hold the name fails with TargetExists
C31_CreateChecksOwnStateOnly ==
  [][ /\ (last'.op = "create" /\ Idle /\ RootFound
            /\ last'.args.type = "task"
            /\ CreateFileName(last'.args).ok
            /\ buildFrontmatter("task", last'.args.title,
                                Some(DefaultState(last'.args)),
                                last'.args.priority,
                                last'.args.storyPoints, last'.at).ok
            /\ CreateTarget(last'.args) \notin DOMAIN files)
         => /\ last'.res.ok
            /\ CreateTarget(last'.args) \in DOMAIN files'
            /\ \A s \in Namesakes(files, DefaultState(last'.args),
                                  CreateFileName(last'.args).val) :
                 <<tasks, StateDir(s), CreateFileName(last'.args).val>>
                   \in DOMAIN files'
      /\ (last'.op = "move" /\ Idle /\ MoveFileName(last'.args).ok
            /\ last'.args.toState
                 \in Namesakes(files, last'.args.fromState,
                               MoveFileName(last'.args).val)
            /\ MoveSource(last'.args) \in DOMAIN files)
         => (last'.res.err = "TargetExists" /\ files' = files) ]_vars

\* a create that succeeded while the name was in another state directory
C31_Witness ==
  /\ last.op = "create" /\ last.res.ok /\ last.args.type = "task"
  /\ Namesakes(files, DefaultState(last.args),
               CreateFileName(last.args).val) # {}
  /\ last.res.path
       = <<tasks, StateDir(DefaultState(last.args)),
           CreateFileName(last.args).val>>

(***************************************************************************)
(* The state recorded in a document                                        *)
(***************************************************************************)
\* the line buildFrontmatter writes for the state st
StateLine(st) == <<"s", "t", "a", "t", "e", ":", " ">> \o StateDir(st)

\* the index of the line that closes the frontmatter of a text
FrontmatterEnd(text) ==
  CHOOSE i \in 2..Len(text) :
    /\ text[i] = <<"-", "-", "-">>
    /\ \A j \in 2..(i - 1) : text[j] # <<"-", "-", "-">>

\* the states the frontmatter of a text records
RecordedStates(text) ==
  { st \in TaskStates :
      \E i \in 2..(FrontmatterEnd(text) - 1) : text[i] = StateLine(st) }

\* create records the state it was given, and a move leaves the text of
\* the document it relocates as it is
StateLineKept ==
  /\ (last'.op = "create" /\ Idle /\ last'.res.ok
        /\ last'.args.type = "task")
       => RecordedStates(files'[last'.res.path])
            = {DefaultState(last'.args)}
  /\ (last'.op = "move" /\ Idle /\ last'.res.ok)
       => /\ files'[last'.res.to] = files[last'.res.from]
          /\ RecordedStates(files'[last'.res.to])
               = RecordedStates(files[last'.res.from])

\* C32 as stated: move never rewrites a document, the "state: " line of a
\* task file stays the state given to create, and after every successful
\* move the recorded state differs from the state directory the file is in
C32_RecordedStateDiffers ==
  [][ /\ StateLineKept
      /\ (last'.op = "move" /\ Idle /\ last'.res.ok)
           => last'.args.toState
                \notin RecordedStates(files'[last'.res.to]) ]_vars

\* C32: move never rewrites a document, the "state: " line of a task file
\* stays the state given to create, and after a successful move of a file
\* that was in the directory of its recorded state the recorded state
\* differs from the state directory the file is in; a move back to the
\* directory of the recorded state makes the two agree again
C32_MoveKeepsRecordedState ==
  [][ /\ StateLineKept
      /\ (last'.op = "move" /\ Idle /\ last'.res.ok)
           => /\ RecordedStates(files[last'.res.from])
                   = {last'.args.fromState}
                 => last'.args.toState
                      \notin RecordedStates(files'[last'.res.to])
              /\ RecordedStates(files[last'.res.from])
                   = {last'.args.toState}
                 => RecordedStates(files'[last'.res.to])
                      = {last'.args.toState} ]_vars

\* a moved file whose recorded state is the state it was moved from
C32_Witness ==
  /\ last.op = "move" /\ last.res.ok
  /\ last.res.to \in DOMAIN files
  /\ RecordedStates(files[last.res.to]) = {last.args.fromState}
  /\ last.args.toState \notin RecordedStates(files[last.res.to])

(***************************************************************************)
(* The number of documents                                                 *)
(***************************************************************************)
\* the texts of the documents, each as often as files hold it
ContentBag(fs) ==
  [c \in { fs[q] : q \in DOMAIN fs } |->
     Cardinality({ q \in DOMAIN fs : fs[q] = c })]

\* C33: under a single server every successful create adds exactly one
\* document and every other invocation leaves the number of documents as
\* it is; no invocation removes a document or changes the text of one:
\* all but a successful move leave every document at its path, and a
\* successful move leaves every text in place or, for the one it
\* relocates, under the new path
C33_DocumentCount ==
  [][ (last'.op # "none" /\ Idle)
        => /\ Cardinality(DOMAIN files')
                = Cardinality(DOMAIN files)
                    + (IF last'.op = "create" /\ last'.res.ok THEN 1 ELSE 0)
           /\ ContentBag(files) \sqsubseteq ContentBag(files')
           /\ ~(last'.op = "move" /\ last'.res.ok)
                => \A q \in DOMAIN files :
                     q \in DOMAIN files' /\ files'[q] = files[q]
           /\ ~(last'.op = "create" /\ last'.res.ok) /\ ~(last'.op = "move")
                => files' = files ]_vars

\* a second document created right after a successful move of the first
C33_Witness ==
  /\ last.op = "create" /\ last.res.ok
  /\ prev.op = "move" /\ prev.res.ok
  /\ prev.res.to \in DOMAIN files
  /\ Cardinality(DOMAIN files) = 2

(***************************************************************************)
(* A move and the move back                                                *)
(***************************************************************************)
\* the second call moves back what the first call moved
MoveBack(first, second) ==
  /\ first.op = "move" /\ first.res.ok /\ second.op = "move"
  /\ second.args.fromState = first.args.toState
  /\ second.args.toState = first.args.fromState
  /\ SameIdentity(first.args, second.args)

\* the files before a successful move, given the files fs after it
BeforeMove(fs, first) ==
  [q \in (DOMAIN fs \ {first.res.to}) \cup {first.res.from} |->
     IF q = first.res.from THEN fs[first.res.to] ELSE fs[q]]

\* C34: a move from A to B that succeeded and is followed at once by the
\* move from B to A with the same title, priority, storyPoints and fileName
\* is undone by it: the second move succeeds, and the files and their
\* texts are those before the first move
C34_MoveBackRestores ==
  [][ (Idle /\ MoveBack(prev, last'))
        => /\ last'.res.ok
           /\ last'.res.from = prev.res.to /\ last'.res.to = prev.res.from
           /\ prev.res.from \notin DOMAIN files
           /\ files' = BeforeMove(files, prev)
           /\ renameSync(files', prev.res.from, prev.res.to) = files ]_vars

\* a file back in the directory a move had taken it from
C34_Witness ==
  /\ MoveBack(prev, last) /\ last.res.ok
  /\ prev.res.from \in DOMAIN files /\ prev.res.to \notin DOMAIN files
  /\ Cardinality(DOMAIN files) = 2

=============================================================================
